---- MODULE Spec2Model ----
(***************************************************************************)
(* Model of the SoundCloud bot's track pipeline (api/bot.py):              *)
(*   - SoundCloudDownloader.sanitize_filename   (pure function)            *)
(*   - SoundCloudDownloader.download_track      (worker-thread job)        *)
(*   - soundcloud_handler                       (coroutine, one action per *)
(*     completed await; the synchronous code up to the next await belongs  *)
(*     to the same action)                                                 *)
(* Strings are sequences of one-character strings.  The chat transport and *)
(* the extraction library are the environment: every call to them returns  *)
(* or raises, and a library call may also never return.                    *)
(***************************************************************************)
EXTENDS Integers, Sequences, FiniteSets, TLC

VARIABLES
    pc,              \* which await soundcloud_handler is suspended on
    wpc,             \* position of the executor job _download
    status_message,  \* [exists, text]: the status message in the chat
    pending,         \* text of the edit_text / answer call in flight
    temp_dir,        \* TRUE while the TemporaryDirectory exists
    files,           \* files in temp_dir: set of [stem, ext, size]
    info,            \* result of extract_info
    filepath,        \* [stem, ext] computed by _download
    exc,             \* exception raised by _download, [kind, detail]
    gate,            \* what the size checks saw and decided
    sendAttempts,    \* history: number of message.answer_audio calls
    audioSent,       \* history: answer_audio returned
    visibleFailures, \* history: failure texts that reached the user
    events,          \* history: order of the pipeline's steps
    raisedEdits,     \* history: texts whose edit_text raised
    downloaded,      \* history: temp_dir as ydl_download.download left it
    sx, sy, sz, spc, \* sanitize_filename harness: input, f(x), f(f(x))
    duration, duration_str, dpc,  \* caption harness: info's duration, text
    text, url, handed, lpc,       \* link harness: message.text, url, argument
    hook,            \* webhook_handler: [stage, kind, status, body]
    cpc,             \* concurrent runs: position of each request
    cdir,            \* concurrent runs: temp_dir of each request, 0 if none
    cfs,             \* concurrent runs: files on disk, [dir, stem, ext, by]
    ydl_opts,        \* concurrent runs: downloader.ydl_opts (module level)
    copts,           \* concurrent runs: download_opts of each request
    loop,            \* concurrent runs: request blocking the event loop, or 0
    accessLog        \* concurrent runs: history of file accesses [by, dir]

vars == <<pc, wpc, status_message, pending, temp_dir, files, info, filepath,
          exc, gate, sendAttempts, audioSent, visibleFailures, events,
          raisedEdits, downloaded, sx, sy, sz, spc, duration, duration_str,
          dpc, text, url, handed, lpc, hook, cpc, cdir, cfs, ydl_opts, copts,
          loop, accessLog>>

handlerVars == <<pc, wpc, status_message, pending, temp_dir, files, info,
                 filepath, exc, gate, sendAttempts, audioSent,
                 visibleFailures, events, raisedEdits, downloaded>>

sanVars == <<sx, sy, sz, spc>>

durVars == <<duration, duration_str, dpc>>

linkVars == <<text, url, handed, lpc>>

hookVars == <<hook>>

concVars == <<cpc, cdir, cfs, ydl_opts, copts, loop, accessLog>>

\* what the steps of soundcloud_handler leave alone
harnessVars == <<sanVars, durVars, linkVars, hookVars, concVars>>

(***************************************************************************)
(* Characters and strings                                                  *)
(***************************************************************************)
IllegalChars == {"<", ">", ":", "\"", "/", "\\", "|", "?", "*"}

Whitespace == {" ", "\t", "\n"}

\* the \w class, restricted to the characters the model's strings use
WordChars == {"a", "b", "c", "g", "k", "n", "o", "r", "t", "x", "S", "0", "_"}

KeptChars == WordChars \cup Whitespace \cup {"-", "_", "."}

MaxNameLen == 200

RECURSIVE LStrip(_)
LStrip(s) ==
    IF s # <<>> /\ Head(s) \in Whitespace THEN LStrip(Tail(s)) ELSE s

RECURSIVE RStrip(_)
RStrip(s) ==
    IF s # <<>> /\ s[Len(s)] \in Whitespace
    THEN RStrip(SubSeq(s, 1, Len(s) - 1))
    ELSE s

Strip(s) == RStrip(LStrip(s))

ReplaceIllegal(s) ==
    [i \in 1..Len(s) |-> IF s[i] \in IllegalChars THEN "_" ELSE s[i]]

IsKept(c) == c \in KeptChars

RemoveDisallowed(s) == SelectSeq(s, IsKept)

Truncate(s) == IF Len(s) > MaxNameLen THEN SubSeq(s, 1, MaxNameLen) ELSE s

sanitize_noTruncate(filename) ==
    Strip(RemoveDisallowed(ReplaceIllegal(filename)))

sanitize_filename(filename) ==
    Truncate(Strip(RemoveDisallowed(ReplaceIllegal(filename))))

(***************************************************************************)
(* Texts sent to the user.  Every text in the source is a literal; a text  *)
(* is modelled as its template plus the exception detail interpolated into *)
(* it, which is empty for every literal.                                   *)
(***************************************************************************)
ProgressTemplates == {"initial", "downloading", "sending"}

FailureTemplates ==
    {"gate_missing", "too_large", "empty", "access", "download_error",
     "file_not_found", "timeout", "unexpected"}

Text(t) == [template |-> t, detail |-> <<>>]

NoText == [template |-> "none", detail |-> <<>>]

(***************************************************************************)
(* Exceptions                                                              *)
(***************************************************************************)
NoExc == [kind |-> "none", detail |-> <<>>]

\* str(e) of the errors the extraction library reports, as word sequences
DownloadErrorDetails ==
    { <<"ERROR", "track", "is", "Private">>,
      <<"ERROR", "track", "not available">>,
      <<"ERROR", "HTTP", "500">> }

Lower(w) ==
    CASE w = "Private" -> "private"
      [] w = "ERROR"   -> "error"
      [] w = "HTTP"    -> "http"
      [] OTHER         -> w

Contains(detail, w) == \E i \in 1..Len(detail) : Lower(detail[i]) = w

ExceptTextLeaky(kind, detail) ==
    [template |-> "unexpected", detail |-> detail]

\* the except clauses of soundcloud_handler, in their order
ExceptText(kind, detail) ==
    IF kind = "DownloadError"
    THEN IF Contains(detail, "private") \/ Contains(detail, "not available")
         THEN Text("access")
         ELSE Text("download_error")
    ELSE IF kind = "FileNotFoundError" THEN Text("file_not_found")
    ELSE IF kind = "TimeoutError" THEN Text("timeout")
    ELSE Text("unexpected")

(***************************************************************************)
(* The scratch directory                                                   *)
(***************************************************************************)
ProbeExts == <<".mp3", ".m4a", ".opus", ".webm">>

\* extensions under which the library may leave its output
OutputExts == {".mp3", ".m4a", ".opus", ".webm", ".ogg"}

SizeLimit == 50 * 1024 * 1024

Sizes == {0, 1, SizeLimit, SizeLimit + 1, 60 * 1024 * 1024}

Exists(fs, p) == \E f \in fs : f.stem = p.stem /\ f.ext = p.ext

GetSize(fs, p) == (CHOOSE f \in fs : f.stem = p.stem /\ f.ext = p.ext).size

Rename(fs, src, dst) ==
    { f \in fs : ~(f.stem = src.stem /\ f.ext = src.ext)
                 /\ ~(f.stem = dst.stem /\ f.ext = dst.ext) }
    \cup { [stem |-> dst.stem, ext |-> dst.ext, size |-> GetSize(fs, src)] }

NoPath == [stem |-> <<>>, ext |-> "none"]

(***************************************************************************)
(* Metadata                                                                *)
(***************************************************************************)
Titles ==
    { <<"S", "o", "n", "g">>,
      <<"a", ":", "b">>,
      <<" ", "x", "!">> }

NoInfo == [present |-> FALSE, hasTitle |-> FALSE, title |-> <<>>]

Infos ==
    { [present |-> TRUE, hasTitle |-> TRUE, title |-> t] : t \in Titles }
    \cup { [present |-> TRUE, hasTitle |-> FALSE, title |-> <<>>] }

\* info.get('title', 'track')
TitleOf(i) == IF i.hasTitle THEN i.title ELSE <<"t", "r", "a", "c", "k">>

(***************************************************************************)
(* The delivery gate: the checks of soundcloud_handler between the return  *)
(* of download_track and the "sending" edit, in the source's order         *)
(***************************************************************************)
GateOffByOne(exists, size) ==
    IF ~exists THEN "RejectedMissing"
    ELSE IF size >= SizeLimit THEN "RejectedTooLarge"
    ELSE IF size = 0 THEN "RejectedEmpty"
    ELSE "Accepted"

GateNoEmptyCheck(exists, size) ==
    IF ~exists THEN "RejectedMissing"
    ELSE IF size > SizeLimit THEN "RejectedTooLarge"
    ELSE "Accepted"

Gate(exists, size) ==
    IF ~exists THEN "RejectedMissing"
    ELSE IF size > SizeLimit THEN "RejectedTooLarge"
    ELSE IF size = 0 THEN "RejectedEmpty"
    ELSE "Accepted"

RejectText(outcome) ==
    CASE outcome = "RejectedMissing"  -> Text("gate_missing")
      [] outcome = "RejectedTooLarge" -> Text("too_large")
      [] outcome = "RejectedEmpty"    -> Text("empty")

NoGate == [outcome |-> "none", exists |-> FALSE, size |-> 0]

(***************************************************************************)
(* Initial state                                                           *)
(***************************************************************************)
HandlerInit ==
    /\ pc = "idle"
    /\ wpc = "none"
    /\ status_message = [exists |-> FALSE, text |-> NoText]
    /\ pending = NoText
    /\ temp_dir = FALSE
    /\ files = {}
    /\ info = NoInfo
    /\ filepath = NoPath
    /\ exc = NoExc
    /\ gate = NoGate
    /\ sendAttempts = 0
    /\ audioSent = FALSE
    /\ visibleFailures = <<>>
    /\ events = <<>>
    /\ raisedEdits = {}
    /\ downloaded = {}

NumReqs == 2

Reqs == 1..NumReqs

\* 'outtmpl': '%(title)s.%(ext)s' of SoundCloudDownloader.__init__
DefaultOpts == [outtmpl |-> [dir |-> 0, stem |-> <<"%">>]]

NoDuration == [kind |-> "absent", whole |-> 0, tenths |-> 0]

NoHook ==
    [stage |-> "off", kind |-> "none", raised |-> FALSE, status |-> 0,
     body |-> <<>>]

SanIdle == sx = <<>> /\ sy = <<>> /\ sz = <<>> /\ spc = "off"

DurIdle == duration = NoDuration /\ duration_str = <<>> /\ dpc = "off"

LinkIdle == text = <<>> /\ url = <<>> /\ handed = <<>> /\ lpc = "off"

HookIdle == hook = NoHook

ConcIdle ==
    /\ cpc = [r \in Reqs |-> "off"]
    /\ cdir = [r \in Reqs |-> 0]
    /\ cfs = {}
    /\ ydl_opts = DefaultOpts
    /\ copts = [r \in Reqs |-> DefaultOpts]
    /\ loop = 0
    /\ accessLog = {}

Init ==
    /\ HandlerInit
    /\ SanIdle
    /\ DurIdle
    /\ LinkIdle
    /\ HookIdle
    /\ ConcIdle


(***************************************************************************)
(* soundcloud_handler                                                      *)
(***************************************************************************)
Terminal == {"done", "failed", "crashed"}

\* an error of the chat transport (aiogram's TelegramAPIError family)
TransportError == [kind |-> "TelegramAPIError", detail |-> <<"Bad", "Request">>]

ExitWithLeak ==
    /\ temp_dir' = temp_dir
    /\ files' = files

\* TemporaryDirectory.__exit__: the directory and its content are removed
ExitWith ==
    /\ temp_dir' = FALSE
    /\ files' = {}

\* an exception leaves the with block and is caught by an except clause,
\* which calls status_message.edit_text with the clause's text
RaiseInTry(e) ==
    /\ ExitWith
    /\ pending' = ExceptText(e.kind, e.detail)
    /\ pc' = "await_edit_failure"

\* the dispatcher starts the handler, which calls message.answer
Receive ==
    /\ spc = "off"
    /\ pc = "idle"
    /\ pc' = "await_answer"
    /\ pending' = Text("initial")
    /\ UNCHANGED <<wpc, status_message, temp_dir, files, info, filepath, exc,
                   gate, sendAttempts, audioSent, visibleFailures, events,
                   raisedEdits>>
    /\ UNCHANGED downloaded
    /\ UNCHANGED harnessVars

\* message.answer(initial) completes; on success the with block is entered
\* and edit_text(downloading) is called
AnswerInitial ==
    /\ pc = "await_answer"
    /\ \/ /\ status_message' = [exists |-> TRUE, text |-> pending]
          /\ events' = Append(events, "status_sent")
          /\ temp_dir' = TRUE
          /\ pending' = Text("downloading")
          /\ pc' = "await_edit_downloading"
       \/ /\ pc' = "crashed"
          /\ pending' = NoText
          /\ UNCHANGED <<status_message, events, temp_dir>>
    /\ UNCHANGED <<wpc, files, info, filepath, exc, gate, sendAttempts,
                   audioSent, visibleFailures, raisedEdits>>
    /\ UNCHANGED downloaded
    /\ UNCHANGED harnessVars

\* edit_text(downloading) completes; on success download_track submits
\* _download to the executor and awaits it
EditDownloading ==
    /\ pc = "await_edit_downloading"
    /\ \/ /\ status_message' = [status_message EXCEPT !.text = pending]
          /\ events' = events \o <<"status_downloading", "download_called">>
          /\ pending' = NoText
          /\ wpc' = "extract"
          /\ pc' = "await_download"
          /\ UNCHANGED <<temp_dir, files, raisedEdits>>
       \/ /\ raisedEdits' = raisedEdits \cup {pending.template}
          /\ RaiseInTry(TransportError)
          /\ UNCHANGED <<status_message, events, wpc>>
    /\ UNCHANGED <<info, filepath, exc, gate, sendAttempts, audioSent,
                   visibleFailures>>
    /\ UNCHANGED downloaded
    /\ UNCHANGED harnessVars

(***************************************************************************)
(* download_track: the job _download in the executor thread                *)
(***************************************************************************)
ExtractInfoNoCheck ==
    /\ pc = "await_download"
    /\ wpc = "extract"
    /\ events' = Append(events, "extract_info")
    /\ exc' = [kind |-> "Exception", detail |-> <<"Could", "not", "extract">>]
    /\ wpc' = "download"
    /\ UNCHANGED <<info, filepath>>
    /\ UNCHANGED <<pc, status_message, pending, temp_dir, files, gate,
                   sendAttempts, audioSent, visibleFailures, raisedEdits>>
    /\ UNCHANGED downloaded
    /\ UNCHANGED harnessVars

\* ydl.extract_info(url, download=False) returns, raises or never returns;
\* on a result the target path is computed and the download is called
ExtractInfo ==
    /\ pc = "await_download"
    /\ wpc = "extract"
    /\ events' = Append(events, "extract_info")
    /\ \/ \E i \in Infos :
            /\ info' = i
            /\ filepath' = [stem |-> sanitize_filename(TitleOf(i)),
                            ext |-> ".mp3"]
            /\ wpc' = "download"
            /\ exc' = exc
       \/ /\ exc' = [kind |-> "Exception",
                     detail |-> <<"Could", "not", "extract">>]
          /\ wpc' = "raised"
          /\ UNCHANGED <<info, filepath>>
       \/ \E d \in DownloadErrorDetails :
            /\ exc' = [kind |-> "DownloadError", detail |-> d]
            /\ wpc' = "raised"
            /\ UNCHANGED <<info, filepath>>
       \/ /\ wpc' = "hung"
          /\ UNCHANGED <<info, filepath, exc>>
    /\ UNCHANGED <<pc, status_message, pending, temp_dir, files, gate,
                   sendAttempts, audioSent, visibleFailures, raisedEdits>>
    /\ UNCHANGED downloaded
    /\ UNCHANGED harnessVars

ProbeFallbackLast(fs, path) ==
    IF Exists(fs, path)
    THEN [ok |-> TRUE, files |-> fs]
    ELSE LET found == { k \in 1..Len(ProbeExts) :
                          Exists(fs, [stem |-> path.stem, ext |-> ProbeExts[k]]) }
         IN  IF found # {}
             THEN LET k == CHOOSE m \in found : \A n \in found : m >= n
                  IN  [ok |-> TRUE,
                       files |-> Rename(fs, [stem |-> path.stem,
                                             ext |-> ProbeExts[k]], path)]
             ELSE [ok |-> FALSE, files |-> fs]

\* the check after the download: the expected path, else the first
\* existing fallback extension renamed to it, else FileNotFoundError
ProbeFallback(fs, path) ==
    IF Exists(fs, path)
    THEN [ok |-> TRUE, files |-> fs]
    ELSE LET found == { k \in 1..Len(ProbeExts) :
                          Exists(fs, [stem |-> path.stem, ext |-> ProbeExts[k]]) }
         IN  IF found # {}
             THEN LET k == CHOOSE m \in found : \A n \in found : m <= n
                  IN  [ok |-> TRUE,
                       files |-> Rename(fs, [stem |-> path.stem,
                                             ext |-> ProbeExts[k]], path)]
             ELSE [ok |-> FALSE, files |-> fs]

\* ydl_download.download([url]) returns, raises or never returns; after a
\* return the job looks for the file and returns the path or raises
Download ==
    /\ pc = "await_download"
    /\ wpc = "download"
    /\ events' = Append(events, "download")
    /\ \/ \E exts \in SUBSET OutputExts, size \in Sizes :
            LET written == files \cup
                    { [stem |-> filepath.stem, ext |-> e, size |-> size] :
                      e \in exts }
                r == ProbeFallback(written, filepath)
            IN  /\ files' = r.files
                /\ downloaded' = written
                /\ wpc' = IF r.ok THEN "returned" ELSE "raised"
                /\ exc' = IF r.ok THEN exc
                          ELSE [kind |-> "FileNotFoundError",
                                detail |-> <<"Downloaded", "file", "not", "found">>]
       \/ \E d \in DownloadErrorDetails, part \in BOOLEAN :
            /\ files' = IF part
                        THEN files \cup {[stem |-> filepath.stem,
                                          ext |-> ".mp3.part", size |-> 1]}
                        ELSE files
            /\ downloaded' = files'
            /\ exc' = [kind |-> "DownloadError", detail |-> d]
            /\ wpc' = "raised"
       \/ /\ wpc' = "hung"
          /\ UNCHANGED <<files, exc, downloaded>>
    /\ UNCHANGED <<pc, status_message, pending, temp_dir, info, filepath,
                   gate, sendAttempts, audioSent, visibleFailures,
                   raisedEdits>>
    /\ UNCHANGED harnessVars

AcquireDoneRetry ==
    /\ pc = "await_download"
    /\ wpc = "raised"
    /\ wpc' = "extract"
    /\ UNCHANGED <<pc, status_message, pending, temp_dir, files, info,
                   filepath, exc, gate, sendAttempts, audioSent,
                   visibleFailures, events, raisedEdits>>
    /\ UNCHANGED downloaded
    /\ UNCHANGED harnessVars

\* await downloader.download_track(...) completes in the handler: an
\* exception goes to the except clauses; a result goes through the size
\* checks, which end in edit_text(rejection) or edit_text(sending)
AcquireDone ==
    /\ pc = "await_download"
    /\ \/ /\ wpc = "raised"
          /\ RaiseInTry(exc)
          /\ UNCHANGED <<gate, events>>
       \/ /\ wpc = "returned"
          /\ LET ex == Exists(files, filepath)
                 size == IF ex THEN GetSize(files, filepath) ELSE 0
                 out == Gate(ex, size)
             IN  /\ gate' = [outcome |-> out, exists |-> ex, size |-> size]
                 /\ IF out = "Accepted"
                    THEN /\ pending' = Text("sending")
                         /\ pc' = "await_edit_sending"
                         /\ events' = Append(events, "validated")
                    ELSE /\ pending' = RejectText(out)
                         /\ pc' = "await_edit_reject"
                         /\ events' = events
          /\ UNCHANGED <<temp_dir, files>>
    /\ UNCHANGED <<wpc, status_message, info, filepath, exc, sendAttempts,
                   audioSent, visibleFailures, raisedEdits>>
    /\ UNCHANGED downloaded
    /\ UNCHANGED harnessVars

\* edit_text(rejection) completes; on success the handler returns
EditReject ==
    /\ pc = "await_edit_reject"
    /\ \/ /\ status_message' = [status_message EXCEPT !.text = pending]
          /\ visibleFailures' = Append(visibleFailures, pending)
          /\ ExitWith
          /\ pending' = NoText
          /\ pc' = "failed"
          /\ UNCHANGED raisedEdits
       \/ /\ raisedEdits' = raisedEdits \cup {pending.template}
          /\ RaiseInTry(TransportError)
          /\ UNCHANGED <<status_message, visibleFailures>>
    /\ UNCHANGED <<wpc, info, filepath, exc, gate, sendAttempts, audioSent,
                   events>>
    /\ UNCHANGED downloaded
    /\ UNCHANGED harnessVars

\* edit_text(sending) completes; on success the file is read, the caption
\* is built and message.answer_audio is called
EditSending ==
    /\ pc = "await_edit_sending"
    /\ \/ /\ status_message' = [status_message EXCEPT !.text = pending]
          /\ events' = events \o <<"status_sending", "audio_called">>
          /\ sendAttempts' = sendAttempts + 1
          /\ pending' = NoText
          /\ pc' = "await_answer_audio"
          /\ UNCHANGED <<temp_dir, files, raisedEdits>>
       \/ /\ raisedEdits' = raisedEdits \cup {pending.template}
          /\ RaiseInTry(TransportError)
          /\ UNCHANGED <<status_message, events, sendAttempts>>
    /\ UNCHANGED <<wpc, info, filepath, exc, gate, audioSent,
                   visibleFailures>>
    /\ UNCHANGED downloaded
    /\ UNCHANGED harnessVars

\* message.answer_audio completes; on success status_message.delete is
\* called
AnswerAudio ==
    /\ pc = "await_answer_audio"
    /\ \/ /\ audioSent' = TRUE
          /\ events' = Append(events, "audio_sent")
          /\ pc' = "await_delete"
          /\ UNCHANGED <<temp_dir, files, pending>>
       \/ /\ RaiseInTry(TransportError)
          /\ UNCHANGED <<audioSent, events>>
    /\ UNCHANGED <<wpc, status_message, info, filepath, exc, gate,
                   sendAttempts, visibleFailures, raisedEdits>>
    /\ UNCHANGED downloaded
    /\ UNCHANGED harnessVars

\* status_message.delete completes; on success the with block is left and
\* the handler returns
DeleteStatus ==
    /\ pc = "await_delete"
    /\ \/ /\ status_message' = [status_message EXCEPT !.exists = FALSE]
          /\ events' = Append(events, "status_deleted")
          /\ ExitWith
          /\ pc' = "done"
          /\ UNCHANGED pending
       \/ /\ RaiseInTry(TransportError)
          /\ UNCHANGED <<status_message, events>>
    /\ UNCHANGED <<wpc, info, filepath, exc, gate, sendAttempts, audioSent,
                   visibleFailures, raisedEdits>>
    /\ UNCHANGED downloaded
    /\ UNCHANGED harnessVars

EditFailureDeletes ==
    /\ pc = "await_edit_failure"
    /\ status_message' = [status_message EXCEPT !.exists = FALSE]
    /\ pending' = NoText
    /\ pc' = "failed"
    /\ UNCHANGED <<wpc, temp_dir, files, info, filepath, exc, gate,
                   sendAttempts, audioSent, events, visibleFailures,
                   raisedEdits>>
    /\ UNCHANGED downloaded
    /\ UNCHANGED harnessVars

\* edit_text(failure text) of an except clause completes; on success the
\* handler returns, otherwise the exception leaves the handler
EditFailure ==
    /\ pc = "await_edit_failure"
    /\ \/ /\ status_message' = [status_message EXCEPT !.text = pending]
          /\ visibleFailures' = Append(visibleFailures, pending)
          /\ pc' = "failed"
          /\ UNCHANGED raisedEdits
       \/ /\ raisedEdits' = raisedEdits \cup {pending.template}
          /\ pc' = "crashed"
          /\ UNCHANGED <<status_message, visibleFailures>>
    /\ pending' = NoText
    /\ UNCHANGED <<wpc, temp_dir, files, info, filepath, exc, gate,
                   sendAttempts, audioSent, events>>
    /\ UNCHANGED downloaded
    /\ UNCHANGED harnessVars

Next ==
    \/ Receive
    \/ AnswerInitial
    \/ EditDownloading
    \/ ExtractInfo
    \/ Download
    \/ AcquireDone
    \/ EditReject
    \/ EditSending
    \/ AnswerAudio
    \/ DeleteStatus
    \/ EditFailure

Spec == Init /\ [][Next]_vars

\* the event loop resumes every coroutine whose awaited call has completed,
\* and the executor runs every submitted job
FairSpec == Spec /\ WF_vars(Next)

TypeOK ==
    /\ pc \in {"idle", "await_answer", "await_edit_downloading",
               "await_download", "await_edit_reject", "await_edit_sending",
               "await_answer_audio", "await_delete", "await_edit_failure"}
              \cup Terminal
    /\ wpc \in {"none", "extract", "download", "returned", "raised", "hung"}
    /\ temp_dir \in BOOLEAN
    /\ sendAttempts \in 0..1


(***************************************************************************)
(* sanitize_filename applied to a family of titles, once and then to its   *)
(* own result                                                              *)
(***************************************************************************)
MaxAffix == 2

SanAlphabet == {"a", " ", ":", "!"}

Affixes == UNION { [1..n -> SanAlphabet] : n \in 0..MaxAffix }

Fill(n) == [i \in 1..n |-> "a"]

FillLens == {0, MaxNameLen - 2, MaxNameLen - 1, MaxNameLen}

\* head, a run of word characters, tail: short titles and titles around
\* the length limit with every character class at both ends
SanInputs == { h \o Fill(n) \o t : h \in Affixes, n \in FillLens, t \in Affixes }

InitSan ==
    /\ HandlerInit
    /\ sx \in SanInputs
    /\ sy = <<>>
    /\ sz = <<>>
    /\ spc = "input"
    /\ DurIdle
    /\ LinkIdle
    /\ HookIdle
    /\ ConcIdle

SanitizeOnce ==
    /\ spc = "input"
    /\ sy' = sanitize_filename(sx)
    /\ spc' = "once"
    /\ UNCHANGED <<sx, sz>>
    /\ UNCHANGED <<handlerVars, durVars, linkVars, hookVars, concVars>>

SanitizeTwice ==
    /\ spc = "once"
    /\ sz' = sanitize_filename(sy)
    /\ spc' = "twice"
    /\ UNCHANGED <<sx, sy>>
    /\ UNCHANGED <<handlerVars, durVars, linkVars, hookVars, concVars>>

NextSan ==
    \/ SanitizeOnce
    \/ SanitizeTwice

SpecSan == InitSan /\ [][NextSan]_vars

(***************************************************************************)
(* The duration line of the caption (soundcloud_handler, "Format           *)
(* duration"), applied to the values info['duration'] can have.  A value   *)
(* is [kind, whole, tenths]: the key is absent, None, a string, an int, or *)
(* a non-negative float whole + tenths/10.                                 *)
(***************************************************************************)
MaxDuration == 130

Digits == <<"0", "1", "2", "3", "4", "5", "6", "7", "8", "9">>

RECURSIVE Decimal(_)
Decimal(n) ==
    IF n < 10 THEN <<Digits[n + 1]>>
    ELSE Decimal(n \div 10) \o <<Digits[(n % 10) + 1]>>

\* the format specification 02d
Format02d(n) == IF n < 10 THEN <<"0">> \o Decimal(n) ELSE Decimal(n)

UnknownDuration == <<"unknown">>

\* info.get('duration', 0)
GetDuration(d) ==
    IF d.kind = "absent" THEN [kind |-> "int", whole |-> 0, tenths |-> 0] ELSE d

\* truth value of a Python object
Truthy(v) ==
    CASE v.kind = "int"   -> v.whole # 0
      [] v.kind = "float" -> v.whole # 0 \/ v.tenths # 0
      [] v.kind = "str"   -> TRUE
      [] OTHER            -> FALSE

FormatDurationSwapped(d) ==
    LET v == GetDuration(d)
    IN  IF Truthy(v) /\ v.kind \in {"int", "float"}
        THEN Format02d(v.whole % 60) \o <<":">> \o Format02d(v.whole \div 60)
        ELSE UnknownDuration

FormatDuration(d) ==
    LET v == GetDuration(d)
    IN  IF Truthy(v) /\ v.kind \in {"int", "float"}
        THEN Format02d(v.whole \div 60) \o <<":">> \o Format02d(v.whole % 60)
        ELSE UnknownDuration

Durations ==
    { [kind |-> "int", whole |-> n, tenths |-> 0] :
        n \in (0..MaxDuration) \cup {599, 600, 3599, 3600, 5999, 6000, 6125} }
    \cup { [kind |-> "float", whole |-> n, tenths |-> t] :
             n \in {0, 59, 60, 125, 3600}, t \in {0, 5, 9} }
    \cup { [kind |-> k, whole |-> 0, tenths |-> 0] : k \in {"absent", "none"} }
    \cup { [kind |-> "str", whole |-> 125, tenths |-> 0] }

InitDur ==
    /\ HandlerInit
    /\ SanIdle
    /\ duration \in Durations
    /\ duration_str = <<>>
    /\ dpc = "input"
    /\ LinkIdle
    /\ HookIdle
    /\ ConcIdle

FormatCaptionDuration ==
    /\ dpc = "input"
    /\ duration_str' = FormatDuration(duration)
    /\ dpc' = "done"
    /\ UNCHANGED duration
    /\ UNCHANGED <<handlerVars, sanVars, linkVars, hookVars, concVars>>

NextDur == FormatCaptionDuration

SpecDur == InitDur /\ [][NextDur]_vars

(***************************************************************************)
(* The link filter and the url of soundcloud_handler.  A message text is a *)
(* sequence of tokens, each standing for a run of characters:              *)
(*   "U", "V"  a text the pattern matches as a whole, such as              *)
(*             https://soundcloud.com/artist/song                          *)
(*   "w"       characters of the class [\w\-\.], which prolong the last    *)
(*             path segment when they follow a link directly               *)
(*   "?"       other non-blank characters, such as ?si=1                   *)
(*   " "       white space                                                 *)
(* F.text.regexp(SOUNDCLOUD_REGEX) applies the pattern at the start of the *)
(* text (the default mode of the filter is re.match).                      *)
(***************************************************************************)
MaxTextLen == 3

LinkTokens == {"U", "V"}

TextTokens == LinkTokens \cup {"w", "?", " "}

\* texts in which no link is glued to a preceding link
Texts ==
    { t \in UNION { [1..n -> TextTokens] : n \in 0..MaxTextLen } :
        \A i \in 1..(Len(t) - 1) :
            ~(t[i] \in LinkTokens /\ t[i + 1] \in LinkTokens) }

\* end of the match of SOUNDCLOUD_REGEX that starts with the link at i: the
\* last path segment is greedy
MatchEnd(t, i) ==
    CHOOSE j \in i..Len(t) :
        /\ \A k \in (i + 1)..j : t[k] = "w"
        /\ j = Len(t) \/ t[j + 1] # "w"

\* SOUNDCLOUD_REGEX.match(text): the matched text, or <<>> for no match
RegexMatch(t) ==
    IF t # <<>> /\ t[1] \in LinkTokens THEN SubSeq(t, 1, MatchEnd(t, 1)) ELSE <<>>

InitLink ==
    /\ HandlerInit
    /\ SanIdle
    /\ DurIdle
    /\ text \in Texts
    /\ url = <<>>
    /\ handed = <<>>
    /\ lpc = "received"
    /\ HookIdle
    /\ ConcIdle

\* the dispatcher evaluates the filter of soundcloud_handler; the handler
\* starts with url = message.text.strip(), any other text goes elsewhere
LinkDispatch ==
    /\ lpc = "received"
    /\ IF RegexMatch(text) # <<>>
       THEN /\ url' = Strip(text)
            /\ lpc' = "handler"
       ELSE /\ url' = url
            /\ lpc' = "not_handled"
    /\ UNCHANGED <<text, handed>>
    /\ UNCHANGED <<handlerVars, sanVars, durVars, hookVars, concVars>>

\* downloader.download_track(url, temp_dir) is called
LinkCallDownload ==
    /\ lpc = "handler"
    /\ handed' = url
    /\ lpc' = "download_called"
    /\ UNCHANGED <<text, url>>
    /\ UNCHANGED <<handlerVars, sanVars, durVars, hookVars, concVars>>

NextLink ==
    \/ LinkDispatch
    \/ LinkCallDownload

SpecLink == InitLink /\ [][NextLink]_vars

(***************************************************************************)
(* webhook_handler (api/index.py): a POSTed body is parsed, validated as   *)
(* an Update and fed to the dispatcher, which runs soundcloud_handler for  *)
(* a track message and another handler otherwise.  An exception that       *)
(* leaves a handler leaves dp.feed_update as well.                         *)
(***************************************************************************)
UpdateKinds == {"bad_json", "bad_update", "track", "other"}

InitHook ==
    /\ HandlerInit
    /\ SanIdle
    /\ DurIdle
    /\ LinkIdle
    /\ \E k \in UpdateKinds :
          hook = [stage |-> "posted", kind |-> k, raised |-> FALSE,
                  status |-> 0, body |-> <<>>]
    /\ ConcIdle

\* Response(status_code=...) of the try resp. the except branch
Respond(raised) ==
    [hook EXCEPT !.stage = "responded",
                 !.raised = raised,
                 !.status = IF raised THEN 500 ELSE 200,
                 !.body = <<>>]

\* json.loads(body) and types.Update.model_validate(update_data)
HookParse ==
    /\ hook.stage = "posted"
    /\ hook' = IF hook.kind \in {"bad_json", "bad_update"}
               THEN Respond(TRUE)
               ELSE [hook EXCEPT !.stage = "feeding"]
    /\ UNCHANGED <<handlerVars, sanVars, durVars, linkVars, concVars>>

\* dp.feed_update for an update of another handler returns or raises
HookFeedOther ==
    /\ hook.stage = "feeding"
    /\ hook.kind = "other"
    /\ \E raised \in BOOLEAN : hook' = Respond(raised)
    /\ UNCHANGED <<handlerVars, sanVars, durVars, linkVars, concVars>>

\* dp.feed_update runs soundcloud_handler
HookHandlerStep ==
    /\ hook.stage = "feeding"
    /\ hook.kind = "track"
    /\ Next

HookFeedTrackStrict ==
    /\ hook.stage = "feeding"
    /\ hook.kind = "track"
    /\ pc \in Terminal
    /\ hook' = Respond(pc # "done")
    /\ UNCHANGED <<handlerVars, sanVars, durVars, linkVars, concVars>>

\* dp.feed_update returns when the handler has returned and raises when an
\* exception has left the handler
HookFeedTrack ==
    /\ hook.stage = "feeding"
    /\ hook.kind = "track"
    /\ pc \in Terminal
    /\ hook' = Respond(pc = "crashed")
    /\ UNCHANGED <<handlerVars, sanVars, durVars, linkVars, concVars>>

NextHook ==
    \/ HookParse
    \/ HookFeedOther
    \/ HookHandlerStep
    \/ HookFeedTrack

SpecHook == InitHook /\ [][NextHook]_vars

(***************************************************************************)
(* Several requests at once.  The handlers are coroutines of one event     *)
(* loop: a handler step needs the loop thread (loop = 0 when it is free)   *)
(* and gives it back at its next await.  The job _download of each request *)
(* runs in a thread of the default executor.  All requests use the module  *)
(* level downloader and its ydl_opts; each has its own TemporaryDirectory. *)
(* Failures of the transport are left to the single-request model.         *)
(***************************************************************************)
Dirs == 1..NumReqs

CTitles == { <<"S", "o", "n", "g">>, <<"a", ":", "b">> }

CExts == {".mp3", ".m4a"}

LiveDirs == { cdir[r] : r \in Reqs } \ {0}

MkDtempFixed(existing) == {1}

\* tempfile.mkdtemp: a directory that did not exist is created
MkDtemp(existing) == Dirs \ existing

RunBlocking(r) == r

\* loop.run_in_executor(None, _download): the job goes to a worker thread,
\* the coroutine is suspended and the loop thread is free
RunInExecutor(r) == 0

\* download_opts = self.ydl_opts.copy(); download_opts['outtmpl'] = filepath
PrepareOpts(shared, path) ==
    [shared |-> shared, local |-> [shared EXCEPT !.outtmpl = path]]

InitConc ==
    /\ HandlerInit
    /\ SanIdle
    /\ DurIdle
    /\ LinkIdle
    /\ HookIdle
    /\ cpc = [r \in Reqs |-> "idle"]
    /\ cdir = [r \in Reqs |-> 0]
    /\ cfs = {}
    /\ ydl_opts = DefaultOpts
    /\ copts = [r \in Reqs |-> DefaultOpts]
    /\ loop = 0
    /\ accessLog = {}

notConcVars == <<handlerVars, sanVars, durVars, linkVars, hookVars>>

\* the dispatcher starts soundcloud_handler for a message; message.answer
\* is awaited
CReceive(r) ==
    /\ loop = 0
    /\ cpc[r] = "idle"
    /\ cpc' = [cpc EXCEPT ![r] = "await_answer"]
    /\ UNCHANGED <<cdir, cfs, ydl_opts, copts, loop, accessLog>>
    /\ UNCHANGED notConcVars

\* the status was sent: the with block creates the directory and
\* edit_text(downloading) is awaited
CEnter(r) ==
    /\ loop = 0
    /\ cpc[r] = "await_answer"
    /\ \E dir \in MkDtemp(LiveDirs) : cdir' = [cdir EXCEPT ![r] = dir]
    /\ cpc' = [cpc EXCEPT ![r] = "await_edit"]
    /\ UNCHANGED <<cfs, ydl_opts, copts, loop, accessLog>>
    /\ UNCHANGED notConcVars

\* the status was edited: download_track submits _download and awaits it
CSubmit(r) ==
    /\ loop = 0
    /\ cpc[r] = "await_edit"
    /\ loop' = RunInExecutor(r)
    /\ cpc' = [cpc EXCEPT ![r] = "extract"]
    /\ UNCHANGED <<cdir, cfs, ydl_opts, copts, accessLog>>
    /\ UNCHANGED notConcVars

\* worker thread: extract_info returns, the path and download_opts are set
CExtract(r) ==
    /\ cpc[r] = "extract"
    /\ \E t \in CTitles :
          LET path == [dir |-> cdir[r], stem |-> sanitize_filename(t)]
              o == PrepareOpts(ydl_opts, path)
          IN  /\ ydl_opts' = o.shared
              /\ copts' = [copts EXCEPT ![r] = o.local]
    /\ cpc' = [cpc EXCEPT ![r] = "download"]
    /\ UNCHANGED <<cdir, cfs, loop, accessLog>>
    /\ UNCHANGED notConcVars

\* worker thread: the download writes the file named by download_opts under
\* some extension (or raises), and the job looks for it and renames it
CDownload(r) ==
    /\ cpc[r] = "download"
    /\ LET out == copts[r].outtmpl
           Owners(e) == { f.by : f \in { g \in cfs : g.dir = out.dir
                                           /\ g.stem = out.stem /\ g.ext = e } }
       IN  \/ \E e \in CExts :
                /\ cfs' = { f \in cfs : ~(f.dir = out.dir /\ f.stem = out.stem
                                          /\ f.ext \in {e, ".mp3"}) }
                          \cup {[dir |-> out.dir, stem |-> out.stem,
                                 ext |-> ".mp3", by |-> r]}
                /\ accessLog' = accessLog
                      \cup {[by |-> r, owner |-> r]}
                      \cup {[by |-> r, owner |-> q] : q \in Owners(e) \cup Owners(".mp3")}
                /\ cpc' = [cpc EXCEPT ![r] = "returned"]
           \/ /\ cpc' = [cpc EXCEPT ![r] = "raised"]
              /\ UNCHANGED <<cfs, accessLog>>
    /\ UNCHANGED <<cdir, ydl_opts, copts, loop>>
    /\ UNCHANGED notConcVars

\* the await of download_track completes: the file is read and sent, or the
\* failure reported; the with block is left and its directory removed
CDeliver(r) ==
    /\ loop = 0
    /\ cpc[r] \in {"returned", "raised"}
    /\ accessLog' = accessLog
          \cup {[by |-> r, owner |-> f.by] : f \in {g \in cfs : g.dir = cdir[r]}}
    /\ cfs' = { f \in cfs : f.dir # cdir[r] }
    /\ cdir' = [cdir EXCEPT ![r] = 0]
    /\ cpc' = [cpc EXCEPT ![r] = IF cpc[r] = "returned" THEN "done" ELSE "failed"]
    /\ UNCHANGED <<ydl_opts, copts, loop>>
    /\ UNCHANGED notConcVars

NextConc ==
    \E r \in Reqs :
        \/ CReceive(r)
        \/ CEnter(r)
        \/ CSubmit(r)
        \/ CExtract(r)
        \/ CDownload(r)
        \/ CDeliver(r)

SpecConc == InitConc /\ [][NextConc]_vars

(***************************************************************************)
(* Properties                                                              *)
(***************************************************************************)

\* C1: once soundcloud_handler has reached a terminal state (returned after
\* success, after a rejection or a failure text, or left by an exception),
\* the temporary directory and every file in it no longer exist.
C1_TempDirRemoved ==
    pc \in Terminal => (~temp_dir /\ files = {})

\* a terminal state of a request whose download had put a file in temp_dir
C1_Witness ==
    /\ pc \in Terminal
    /\ gate.exists
    /\ ~temp_dir

C3_GateClassification ==
    (gate.outcome # "none" /\ gate.exists) =>
        /\ gate.size = 0 => gate.outcome = "RejectedEmpty"
        /\ (gate.size >= 1 /\ gate.size <= 52428800) => gate.outcome = "Accepted"
        /\ gate.size >= 52428801 => gate.outcome = "RejectedTooLarge"
        /\ gate.outcome =
              (IF ~gate.exists THEN "RejectedMissing"
               ELSE IF gate.size = 0 THEN "RejectedEmpty"
               ELSE IF gate.size > 52428800 THEN "RejectedTooLarge"
               ELSE "Accepted")

\* a file of exactly 52,428,800 bytes went through the checks and was
\* accepted
C3_Witness ==
    /\ gate.outcome = "Accepted"
    /\ gate.exists
    /\ gate.size = 52428800

C5_EventuallyTerminal ==
    (pc # "idle") ~> (pc \in Terminal)

\* C6: an acquisition that does not complete is ended by a timeout: the
\* request fails and the status shows the timeout text.
C6_AcquisitionTimesOut ==
    (pc = "await_download" /\ wpc = "hung")
        ~> (pc = "failed" /\ status_message.text = Text("timeout"))

\* C7: sanitize_filename is idempotent: applying it to its own result
\* returns that result.
C7_SanitizeIdempotent ==
    spc = "twice" => sz = sy

\* C8: the result of sanitize_filename has at most 200 characters and none
\* of the characters < > : " / \ | ? *; the function is total and maps the
\* empty string to the empty string.
C8_SanitizeBounded ==
    spc \in {"once", "twice"} =>
        /\ DOMAIN sy = 1..Len(sy)
        /\ Len(sy) <= 200
        /\ \A i \in 1..Len(sy) :
              sy[i] \notin {"<", ">", ":", "\"", "/", "\\", "|", "?", "*"}
        /\ sx = <<>> => sy = <<>>

\* a title longer than 200 characters with an illegal character was cut to
\* 200 characters
C8_Witness ==
    /\ spc = "once"
    /\ Len(sx) > 200
    /\ \E i \in 1..Len(sx) : sx[i] = ":"
    /\ Len(sy) = 200

\* C9: the steps of a request happen in one order: status sent, status
\* edited to downloading, download_track called (extraction, download),
\* validation, status edited to sending, answer_audio called, audio sent,
\* status deleted; a successful request has gone through all of them, and
\* the status message is deleted only after the audio was sent and never on
\* a failed request.
C9_StatusOrder ==
    LET order == <<"status_sent", "status_downloading", "download_called",
                   "extract_info", "download", "validated", "status_sending",
                   "audio_called", "audio_sent", "status_deleted">>
        created == events # <<>>
    IN  /\ Len(events) <= Len(order)
        /\ events = SubSeq(order, 1, Len(events))
        /\ pc = "done" => events = order
        /\ (created /\ ~status_message.exists) => (audioSent /\ pc = "done")
        /\ (created /\ pc \in {"failed", "crashed"}) => status_message.exists

\* a request completed: the audio was sent and the status deleted
C9_Witness ==
    /\ pc = "done"
    /\ audioSent
    /\ ~status_message.exists

\* C10: when edit_text for the downloading or the sending stage completes,
\* by returning or by raising, the pipeline goes on to the acquisition, resp.
\* to answer_audio.
C10_ProgressEditNonFatal ==
    [][ /\ pc = "await_edit_downloading" => pc' = "await_download"
        /\ pc = "await_edit_sending" => pc' = "await_answer_audio" ]_vars


\* C11: a request moves through Started, Downloading, Validating, Sending,
\* Done in that order without skipping a state; Failed is absorbing and is
\* entered only from Downloading or Validating, so nothing fails once the
\* request is in Sending or the attachment has been sent.  (Validation has
\* no await of its own: a step from Downloading to Sending that records an
\* accepting gate has passed through Validating.)
C11_StateMachine ==
    [][ LET PhaseOf(p, hasStatus) ==
                CASE p = "idle" -> "Idle"
                  [] p = "await_answer" -> "Idle"
                  [] p = "await_edit_downloading" -> "Started"
                  [] p = "await_download" -> "Downloading"
                  [] p = "await_edit_reject" -> "Validating"
                  [] p \in {"await_edit_sending", "await_answer_audio",
                            "await_delete"} -> "Sending"
                  [] p = "done" -> "Done"
                  [] p = "crashed" /\ ~hasStatus -> "Idle"
                  [] OTHER -> "Failed"
            from == PhaseOf(pc, status_message.exists)
            to == PhaseOf(pc', status_message'.exists)
        IN  from # to =>
              \/ from = "Idle" /\ to = "Started"
              \/ from = "Started" /\ to = "Downloading"
              \/ from = "Downloading" /\ to = "Validating"
              \/ from = "Downloading" /\ to = "Sending"
                 /\ gate.outcome = "none" /\ gate'.outcome = "Accepted"
              \/ from = "Sending" /\ to = "Done"
              \/ from \in {"Downloading", "Validating"} /\ to = "Failed" ]_vars

\* C12: after a download that did not raise, an absent '<clean_title>.mp3'
\* makes download_track probe .mp3, .m4a, .opus, .webm in that order, rename
\* the first existing candidate to the .mp3 path and return it, or raise
\* FileNotFoundError when there is none; a returned path ends in .mp3, lies
\* in the scratch directory and exists.
C12_FallbackProbe ==
    (pc = "await_download" /\ wpc \in {"returned", "raised"}
     /\ events # <<>> /\ events[Len(events)] = "download"
     /\ exc.kind # "DownloadError") =>
        LET Has(e) == \E f \in downloaded : f.stem = filepath.stem /\ f.ext = e
            Others(e) == { f \in downloaded :
                             ~(f.stem = filepath.stem /\ f.ext = e) }
            SizeAt(e) == (CHOOSE f \in downloaded :
                             f.stem = filepath.stem /\ f.ext = e).size
            Moved(e) == Others(e) \cup
                          {[stem |-> filepath.stem, ext |-> ".mp3",
                            size |-> SizeAt(e)]}
        IN  /\ filepath.ext = ".mp3"
            /\ Has(".mp3") => (wpc = "returned" /\ files = downloaded)
            /\ (~Has(".mp3") /\ Has(".m4a")) =>
                  (wpc = "returned" /\ files = Moved(".m4a"))
            /\ (~Has(".mp3") /\ ~Has(".m4a") /\ Has(".opus")) =>
                  (wpc = "returned" /\ files = Moved(".opus"))
            /\ (~Has(".mp3") /\ ~Has(".m4a") /\ ~Has(".opus") /\ Has(".webm")) =>
                  (wpc = "returned" /\ files = Moved(".webm"))
            /\ (~Has(".mp3") /\ ~Has(".m4a") /\ ~Has(".opus") /\ ~Has(".webm")) =>
                  (wpc = "raised" /\ exc.kind = "FileNotFoundError"
                   /\ files = downloaded)
            /\ wpc = "returned" =>
                  (temp_dir /\ \E f \in files :
                      f.stem = filepath.stem /\ f.ext = ".mp3")

\* the download left .opus and .webm files and no .mp3 or .m4a; the .opus
\* file was renamed and the path returned
C12_Witness ==
    /\ pc = "await_download"
    /\ wpc = "returned"
    /\ \E f \in downloaded : f.ext = ".opus"
    /\ \E f \in downloaded : f.ext = ".webm"
    /\ \A f \in downloaded : f.ext \notin {".mp3", ".m4a"}
    /\ \E f \in files : f.ext = ".mp3"
    /\ \E f \in files : f.ext = ".webm"

\* C13: when extract_info returns no info, download_track raises the
\* could-not-extract error, the download is never invoked and no file has
\* been created in the scratch directory.
C13_ExtractionEmpty ==
    (exc.kind = "Exception" /\ exc.detail = <<"Could", "not", "extract">>) =>
        /\ wpc = "raised"
        /\ \A i \in 1..Len(events) : events[i] # "download"
        /\ files = {}
        /\ downloaded = {}
        /\ info = NoInfo

\* the extraction returned nothing and the job has just raised, the
\* scratch directory still being there
C13_Witness ==
    /\ exc.kind = "Exception"
    /\ pc = "await_download"
    /\ wpc = "raised"
    /\ temp_dir

\* C14: the text of a failed acquisition is chosen by category: an
\* extraction or network failure, ExtractionEmpty included, gets the
\* extraction/network text (the access-restricted text for a private or
\* unavailable track), a missing file the missing-file text, a timeout the
\* timeout text, and nothing else the unclassified text.
C14_TemplateByCategory ==
    (pc = "await_edit_failure" /\ wpc = "raised") =>
        /\ (exc.kind = "DownloadError"
            /\ \E i \in 1..Len(exc.detail) :
                  exc.detail[i] \in {"Private", "not available"})
              => pending = Text("access")
        /\ (exc.kind = "DownloadError"
            /\ \A i \in 1..Len(exc.detail) :
                  exc.detail[i] \notin {"Private", "not available"})
              => pending = Text("download_error")
        /\ exc.kind = "Exception" => pending = Text("download_error")
        /\ exc.kind = "FileNotFoundError" => pending = Text("file_not_found")
        /\ exc.kind = "TimeoutError" => pending = Text("timeout")
        /\ pending = Text("unexpected") =>
              exc.kind \notin {"DownloadError", "Exception",
                               "FileNotFoundError", "TimeoutError"}

\* C17: within one request extract_info, the download and answer_audio are
\* each invoked at most once, a job that has raised is not started again,
\* and once the request has failed it makes no further acquisition or send
\* attempt.
C17_NoRetry ==
    /\ [](/\ Cardinality({i \in 1..Len(events) : events[i] = "extract_info"}) <= 1
          /\ Cardinality({i \in 1..Len(events) : events[i] = "download"}) <= 1
          /\ Cardinality({i \in 1..Len(events) : events[i] = "audio_called"}) <= 1
          /\ sendAttempts <= 1)
    /\ [][ /\ wpc = "raised" => wpc' = "raised"
           /\ (pc \in {"await_edit_reject", "await_edit_failure", "failed",
                       "crashed"})
                => (events' = events /\ sendAttempts' = sendAttempts
                    /\ wpc' = wpc) ]_vars

\* a request failed in the acquisition after one extraction and one
\* download, without a send attempt
C17_Witness ==
    /\ pc = "failed"
    /\ wpc = "raised"
    /\ exc.kind = "FileNotFoundError"
    /\ Cardinality({i \in 1..Len(events) : events[i] = "extract_info"}) = 1
    /\ Cardinality({i \in 1..Len(events) : events[i] = "download"}) = 1
    /\ sendAttempts = 0


\* C18 (as stated): the duration field is MM:SS, minutes = floor(d) div 60
\* and seconds = floor(d) mod 60 with at least two digits each, for every
\* numeric duration d, 0 included, and it is the unknown text exactly when
\* the duration is absent or not numeric.
C18_Original ==
    dpc = "done" =>
        LET numeric == duration.kind \in {"int", "float"}
            Val(c) == CHOOSE k \in 0..9 : Digits[k + 1] = c
            s == duration_str
            n == Len(s)
        IN  /\ numeric =>
                  /\ n \in {5, 6}
                  /\ s[n - 2] = ":"
                  /\ \A i \in (1..n) \ {n - 2} : \E k \in 1..10 : Digits[k] = s[i]
                  /\ 10 * Val(s[n - 1]) + Val(s[n]) = duration.whole % 60
                  /\ (IF n = 5 THEN 10 * Val(s[1]) + Val(s[2])
                      ELSE 100 * Val(s[1]) + 10 * Val(s[2]) + Val(s[3]))
                        = duration.whole \div 60
                  /\ n = 6 => s[1] # "0"
            /\ s = <<"unknown">> <=> ~numeric
            /\ duration = [kind |-> "int", whole |-> 125, tenths |-> 0]
                  => s = <<"0", "2", ":", "0", "5">>

\* C18 (amended): the duration field is MM:SS, minutes = floor(d) div 60 and
\* seconds = floor(d) mod 60 with at least two digits each, for every
\* numeric duration d > 0, and it is the unknown text exactly when the
\* duration is absent, not numeric or zero.
C18_DurationField ==
    dpc = "done" =>
        LET numeric == duration.kind \in {"int", "float"}
            zero == duration.whole = 0 /\ duration.tenths = 0
            Val(c) == CHOOSE k \in 0..9 : Digits[k + 1] = c
            s == duration_str
            n == Len(s)
        IN  /\ (numeric /\ ~zero) =>
                  /\ n \in {5, 6}
                  /\ s[n - 2] = ":"
                  /\ \A i \in (1..n) \ {n - 2} : \E k \in 1..10 : Digits[k] = s[i]
                  /\ 10 * Val(s[n - 1]) + Val(s[n]) = duration.whole % 60
                  /\ (IF n = 5 THEN 10 * Val(s[1]) + Val(s[2])
                      ELSE 100 * Val(s[1]) + 10 * Val(s[2]) + Val(s[3]))
                        = duration.whole \div 60
                  /\ n = 6 => s[1] # "0"
            /\ s = <<"unknown">> <=> (~numeric \/ zero)
            /\ duration = [kind |-> "int", whole |-> 125, tenths |-> 0]
                  => s = <<"0", "2", ":", "0", "5">>

\* a duration of 125 seconds was formatted as 02:05
C18_Witness ==
    /\ dpc = "done"
    /\ duration = [kind |-> "int", whole |-> 125, tenths |-> 0]
    /\ duration_str = <<"0", "2", ":", "0", "5">>


\* C19: the url handed to download_track is exactly the first match of the
\* link pattern in the message text, without surrounding or trailing text,
\* and the pipeline never starts for a text without a match.
C19_UrlIsMatch ==
    LET starts == { i \in 1..Len(text) : text[i] \in {"U", "V"} }
        first == CHOOSE i \in starts : \A j \in starts : i <= j
        last == CHOOSE j \in first..Len(text) :
                    /\ \A k \in (first + 1)..j : text[k] = "w"
                    /\ j = Len(text) \/ text[j + 1] # "w"
    IN  /\ lpc \in {"handler", "download_called"} => starts # {}
        /\ lpc = "download_called" => handed = SubSeq(text, first, last)


\* C20: the webhook endpoint answers an update with an empty body and the
\* status 200 when the body parsed and dp.feed_update returned, 500 when
\* parsing or processing raised; a track request that failed in the pipeline
\* and was reported to the user with a failure text yields 200.
C20_WebhookStatus ==
    hook.stage = "responded" =>
        /\ hook.body = <<>>
        /\ hook.status \in {200, 500}
        /\ hook.status = 500 <=> hook.raised
        /\ hook.kind \in {"bad_json", "bad_update"} => hook.status = 500
        /\ (hook.kind = "track" /\ pc \in {"done", "failed"}) => hook.status = 200
        /\ (hook.kind = "track" /\ pc = "crashed") => hook.status = 500
        /\ (hook.kind = "track" /\ Len(visibleFailures) > 0) => hook.status = 200

\* a track request failed with a download error, the user got the failure
\* text and the endpoint answered 200
C20_Witness ==
    /\ hook.stage = "responded"
    /\ hook.kind = "track"
    /\ pc = "failed"
    /\ exc.kind = "DownloadError"
    /\ Len(visibleFailures) = 1
    /\ hook.status = 200


C16_DispatchNotBlocked ==
    \A r \in Reqs :
        cpc[r] \in {"extract", "download"} =>
            /\ loop # r
            /\ \A q \in Reqs \ {r} :
                  /\ cpc[q] = "idle" => ENABLED CReceive(q)
                  /\ cpc[q] = "await_answer" => ENABLED CEnter(q)
                  /\ cpc[q] = "await_edit" => ENABLED CSubmit(q)
                  /\ cpc[q] \in {"returned", "raised"} => ENABLED CDeliver(q)

\* two requests are in their acquisition step at the same time
C16_Witness ==
    \E r, q \in Reqs :
        /\ r # q
        /\ cpc[r] = "download"
        /\ cpc[q] \in {"extract", "download"}
        /\ loop = 0

====
